---- MODULE Spec2Model ----
(***************************************************************************)
(* ReturningResultsEntityUpdator (src/query-builder): after an UPDATE or   *)
(* an INSERT/UPSERT has run, reconcile the caller's entities with the      *)
(* values the database produced.  The model follows update() and insert()  *)
(* statement by statement.  One behaviour is one call: the environment     *)
(* (driver, expression map, metadata) is fixed at construction, the call   *)
(* runs its synchronous part in one step, and every supplemental read      *)
(* (getOne / getMany) settles in a step of its own, in any order.          *)
(*                                                                         *)
(* Values: a column value is a natural number, Null is 0, and a field that *)
(* is undefined is a field that is absent from the object.  An object is a *)
(* function from a set of column names to values.                          *)
(***************************************************************************)
EXTENDS Integers, Sequences, FiniteSets, TLC

\* ------------------------------------------------------------------ bounds

MaxEntities == 2

\* ------------------------------------------------------------------ values

Null == 0

\* The JavaScript value undefined (and a null row of getOne) where an object
\* is expected: a value different from every object over Columns.
Undefined == [x \in {"undefined"} |-> 0]

EmptyObject == [c \in {} |-> 0]

Columns == {"id", "key1", "key2", "value", "upd"}

\* metadata.primaryColumns of the entity of test/github-issues/11516.
primaryColumns == {"id"}

\* column.isGenerated: the auto-increment primary key.
isGenerated(column) == column = "id"

\* ------------------------------------------------------------ collaborators

\* ColumnMetadata.getEntityValue: undefined for an absent field.
HasValue(object, column) ==
    /\ object # Undefined
    /\ column \in DOMAIN object
    /\ object[column] # Null

\* EntityMetadata.getEntityIdMap: the primary-key map, undefined as soon as
\* one primary column is undefined or null.
getEntityIdMap(entity) ==
    IF \A c \in primaryColumns : HasValue(entity, c)
    THEN [c \in primaryColumns |-> entity[c]]
    ELSE Undefined

\* EntityManager.merge(target, destination, source): the source's defined
\* fields overlay the destination's; an undefined source changes nothing and
\* no field of the destination is removed.
merge(destination, source) ==
    IF source = Undefined
    THEN destination
    ELSE [c \in (DOMAIN destination) \cup ((DOMAIN source) \cap Columns) |->
            IF c \in DOMAIN source THEN source[c] ELSE destination[c]]

\* The rows the database holds once the statement has run.
storedRows ==
    { [id |-> 1, key1 |-> 1, key2 |-> 1, value |-> 6, upd |-> 7],
      [id |-> 2, key1 |-> 1, key2 |-> 2, value |-> 6, upd |-> 8] }

\* select(columns) ... setOption("create-pojo"): a plain object holding the
\* selected columns only.
Select(row, columns) == [c \in columns |-> row[c]]

\* The rows a where(object) condition matches.
Matching(where) ==
    { r \in storedRows : \A c \in DOMAIN where : r[c] = where[c] }

\* getOne(): one matching row, or null when none matches.  (withDeleted()
\* of update's read changes nothing here: no row is soft-deleted.)
getOne(where, columns) ==
    IF Matching(where) = {}
    THEN {Undefined}
    ELSE { Select(r, columns) : r \in Matching(where) }

\* All orderings of a finite set: a SELECT without ORDER BY returns its rows
\* in an order the database chooses.
RECURSIVE Orderings(_)
Orderings(S) ==
    IF S = {}
    THEN {<<>>}
    ELSE UNION { { <<x>> \o s : s \in Orderings(S \ {x}) } : x \in S }

\* getMany() over where(entityIds): the rows whose primary key is one of the
\* identifiers, in any order.
getMany(ids, columns) ==
    Orderings({ Select(r, columns) :
                  r \in { q \in storedRows :
                            \E k \in 1..Len(ids) : q \in Matching(ids[k]) } })

\* ------------------------------------------------------------- raw results

\* The driver's raw result: nothing, an object, an array, or a bare value
\* (the cell of Oracle's per-column arrays).
RawUndef == [t |-> "undef", o |-> Undefined, items |-> <<>>]
RawObj(o) == [t |-> "obj", o |-> o, items |-> <<>>]
RawArr(s) == [t |-> "arr", o |-> Undefined, items |-> s]
RawVal(v) == [t |-> "val", o |-> [c \in {"v"} |-> v], items |-> <<>>]

\* Array.isArray(raw)
IsArray(raw) == raw.t = "arr"

\* raw[index], undefined past the end (index counts from 1 here).
At(raw, index) ==
    IF IsArray(raw) /\ index \in 1..Len(raw.items)
    THEN raw.items[index]
    ELSE RawUndef

\* driver.createGeneratedMap(metadata, result): the columns of the raw row
\* that the metadata knows, undefined when there is no row or no such column.
createGeneratedMap(result) ==
    IF result.t = "obj" /\ (DOMAIN result.o) \cap Columns # {}
    THEN [c \in (DOMAIN result.o) \cap Columns |-> result.o[c]]
    ELSE Undefined

\* ------------------------------------------------------------------- state

VARIABLES
    driverType,               \* queryRunner.connection.driver.options.type
    isReturningSqlSupported,  \* the driver's answer for the call's operation
    extraReturningColumns,    \* expressionMap.extraReturningColumns
    insertionReturningColumns,\* metadata.getInsertionReturningColumns()
    conflict,                 \* expressionMap.onUpdate?.conflict
    locallyGenerated,         \* expressionMap.locallyGenerated
    op,                       \* the query type, and so the method called
    pc,                       \* where the method's own async body stands
    callError,                \* what the method's promise rejected with
    given,                    \* the entities as the caller passed them
    givenRaw,                 \* the raw result as the caller passed it
    entities,                 \* the caller's entities, mutated in place
    raw,                      \* updateResult.raw / insertResult.raw
    generatedMaps,            \* updateResult / insertResult .generatedMaps
    identifiers,              \* insertResult.identifiers
    tasks,                    \* the per-entity async callbacks and their reads
    genMaps,                  \* insert's local generatedMaps array
    returningResult,          \* insert's local returningResult array
    entityIds,                \* insert's local entityIds array
    many,                     \* the batched getMany() read of insert
    metadataColumns,          \* mainAlias.metadata.columns, with their flags
    selectorsCalled,          \* which of the two column selectors has run
    updationReturning,        \* what getUpdationReturningColumns() returned
    softDeletionReturning     \* what getSoftDeletionReturningColumns() returned

selectorVars == <<metadataColumns, selectorsCalled, updationReturning,
                  softDeletionReturning>>
envVars == <<driverType, isReturningSqlSupported, extraReturningColumns,
             insertionReturningColumns, conflict, locallyGenerated,
             selectorVars>>
insertVars == <<genMaps, returningResult, entityIds, many, identifiers>>
vars == <<envVars, op, pc, callError, given, givenRaw, entities, raw,
          generatedMaps, tasks, insertVars>>

\* -------------------------------------------------------------- the errors

NoError == [kind |-> "none", of |-> 0]
\* TypeORMError("Cannot update entity because entity id is not set ...")
IdentifierMissing(index) == [kind |-> "TypeORMError", of |-> index]
\* The rejection of the read issued for entity `index` (0: the batched read).
QueryError(index) == [kind |-> "QueryError", of |-> index]

\* ------------------------------------------------------------------ inputs

\* The entities a caller passes: with a primary key that is stored (1, 2) or
\* not (3), or without one and with conflict-column values that match one
\* row, two rows (key2 null: only key1 is usable), no row, or with none.
EntityChoices ==
    { [id |-> 1, key1 |-> 1, key2 |-> 1, value |-> 5],
      [id |-> 2, key1 |-> 1, key2 |-> 2, value |-> 5],
      [id |-> 3, key1 |-> 2, key2 |-> 2, value |-> 5],
      [key1 |-> 1, key2 |-> 1, value |-> 5],
      [key1 |-> 1, key2 |-> Null, value |-> 5],
      [key1 |-> 2, key2 |-> 2, value |-> 5],
      [value |-> 5] }

EntityLists == UNION { [1..n -> EntityChoices] : n \in 0..MaxEntities }

\* One raw row per entity, as a RETURNING clause yields them.
ReturnedRows(n, withUpd) ==
    [i \in 1..n |-> RawObj(IF withUpd THEN [id |-> i, upd |-> 9]
                                        ELSE [id |-> i])]

\* The raw results the driver of the given type hands over for n entities.
RawChoices(n) ==
    CASE driverType = "oracle" ->
           \* one one-cell array per extra returning column
           { RawUndef,
             RawArr([k \in 1..Len(extraReturningColumns) |->
                        RawArr(<<RawVal(9)>>)]) }
      [] driverType = "spanner" ->
           \* the rows wrapped in a one-element outer array
           { RawUndef, RawArr(<<RawArr(ReturnedRows(n, TRUE))>>) }
      [] OTHER ->
           { RawUndef, RawObj([upd |-> 9]),
             RawArr(ReturnedRows(n, FALSE)), RawArr(ReturnedRows(n, TRUE)) }

\* The updator is constructed by an update-family or an insert-family query
\* builder; onUpdate and locallyGenerated are state of an insert only.  The
\* Oracle and Spanner drivers support RETURNING (update() looks for Oracle's
\* raw shape in its RETURNING branch only); the others may or may not.
\* A column of the metadata, as the two column selectors see it.
Column(name, asExpression, isUpdateDate, isVersion, isDeleteDate) ==
    [name |-> name, asExpression |-> asExpression,
     isUpdateDate |-> isUpdateDate, isVersion |-> isVersion,
     isDeleteDate |-> isDeleteDate]

\* The columns of the entity of test/github-issues/11516, and the
\* update-timestamp column the calls below return.
TestColumns ==
    << Column("id", FALSE, FALSE, FALSE, FALSE),
       Column("key1", FALSE, FALSE, FALSE, FALSE),
       Column("key2", FALSE, FALSE, FALSE, FALSE),
       Column("value", FALSE, FALSE, FALSE, FALSE),
       Column("upd", FALSE, TRUE, FALSE, FALSE) >>

Init ==
    /\ driverType \in {"oracle", "spanner", "other"}
    /\ isReturningSqlSupported \in
          (IF driverType = "other" THEN BOOLEAN ELSE {TRUE})
    /\ extraReturningColumns \in {<<>>, <<"upd">>}
    /\ op \in {"update", "insert"}
    /\ IF op = "insert"
       THEN /\ insertionReturningColumns \in {<<"id">>, <<"id", "upd">>}
            /\ conflict \in
                 { [defined |-> FALSE, isArray |-> FALSE, paths |-> <<>>],
                   [defined |-> TRUE, isArray |-> FALSE, paths |-> <<"key1">>],
                   [defined |-> TRUE, isArray |-> TRUE,
                    paths |-> <<"key1", "key2">>],
                   [defined |-> TRUE, isArray |-> TRUE,
                    paths |-> <<"gone", "key1">>] }
            /\ locallyGenerated \in {EmptyObject, [i \in {1} |-> [id |-> 3]]}
       ELSE /\ insertionReturningColumns = <<"id", "upd">>
            /\ conflict = [defined |-> FALSE, isArray |-> FALSE, paths |-> <<>>]
            /\ locallyGenerated = EmptyObject
    /\ pc = "idle"
    /\ callError = NoError
    /\ given = <<>>
    /\ givenRaw = RawUndef
    /\ entities = <<>>
    /\ raw = RawUndef
    /\ generatedMaps = <<>>
    /\ identifiers = <<>>
    /\ tasks = <<>>
    /\ genMaps = <<>>
    /\ returningResult = <<>>
    /\ entityIds = <<>>
    /\ many = "none"
    /\ metadataColumns = TestColumns
    /\ selectorsCalled = {}
    /\ updationReturning = <<>>
    /\ softDeletionReturning = <<>>

\* ------------------------------------------------------------------ update

\* The set of the columns of a list.
ColumnSet(columns) == { columns[k] : k \in 1..Len(columns) }

\* updateResult.raw.reduce(...): Oracle's per-column arrays [[v1], [v2], ...]
\* become one object keyed by the extra returning columns' names.
OracleReduce(r) ==
    LET cells == { k \in 1..Len(r.items) :
                     /\ k <= Len(extraReturningColumns)
                     /\ At(r.items[k], 1).t = "val" }
    IN RawObj([c \in { extraReturningColumns[k] : k \in cells } |->
                 At(r.items[CHOOSE k \in cells :
                               extraReturningColumns[k] = c], 1).o["v"]])

NoTask == [st |-> "none", where |-> Undefined]

\* UpdateWithReturning with a fault: the push is not guarded by
\* `if (returningColumns)`.  C2 must tell it from the code.
UpdateWithReturningAlwaysPush(acc, index) ==
    LET raw1 == IF /\ driverType = "oracle"
                   /\ IsArray(acc.raw)
                   /\ Len(extraReturningColumns) > 0
                THEN OracleReduce(acc.raw)
                ELSE acc.raw
        result == IF IsArray(raw1) THEN At(raw1, index) ELSE raw1
        returningColumns == createGeneratedMap(result)
    IN  [acc EXCEPT
            !.raw = raw1,
            !.entities[index] = merge(@, returningColumns),
            !.generatedMaps =
                Append(@, IF returningColumns = Undefined
                          THEN EmptyObject ELSE returningColumns),
            !.tasks[index].st = "fulfilled"]

\* update's callback for entity `index` when the driver supports RETURNING:
\* the values are in the raw result.  acc: the raw result, the entities, the
\* ledger and the tasks as the callbacks before it left them.
UpdateWithReturning(acc, index) ==
    LET raw1 == IF /\ driverType = "oracle"
                   /\ IsArray(acc.raw)
                   /\ Len(extraReturningColumns) > 0
                THEN OracleReduce(acc.raw)
                ELSE acc.raw
        result == IF IsArray(raw1) THEN At(raw1, index) ELSE raw1
        returningColumns == createGeneratedMap(result)
    IN  IF returningColumns # Undefined
        THEN [acc EXCEPT
                !.raw = raw1,
                !.entities[index] = merge(@, returningColumns),
                !.generatedMaps = Append(@, returningColumns),
                !.tasks[index].st = "fulfilled"]
        ELSE [acc EXCEPT !.raw = raw1, !.tasks[index].st = "fulfilled"]

\* UpdateByReselect with a fault: an entity without an id is skipped
\* silently instead of throwing.  C8 must tell it from the code.
UpdateByReselectSkippingUnidentified(acc, index) ==
    IF Len(extraReturningColumns) > 0
    THEN
        LET entityId == getEntityIdMap(acc.entities[index])
        IN  IF entityId = Undefined
            THEN [acc EXCEPT !.tasks[index].st = "fulfilled"]
            ELSE [acc EXCEPT !.tasks[index] =
                                [st |-> "pending", where |-> entityId]]
    ELSE [acc EXCEPT !.tasks[index].st = "fulfilled"]

\* UpdateByReselect with a fault: the id is required before the returning
\* columns are looked at.  C9 must tell it from the code.
UpdateByReselectIdFirst(acc, index) ==
    LET entityId == getEntityIdMap(acc.entities[index])
    IN  IF entityId = Undefined
        THEN [acc EXCEPT !.tasks[index].st = "threw"]
        ELSE IF Len(extraReturningColumns) > 0
             THEN [acc EXCEPT !.tasks[index] =
                                 [st |-> "pending", where |-> entityId]]
             ELSE [acc EXCEPT !.tasks[index].st = "fulfilled"]

\* update's callback for entity `index` when the driver does not support
\* RETURNING: up to the await of its own getOne(), or to the throw when the
\* entity has no id.
UpdateByReselect(acc, index) ==
    IF Len(extraReturningColumns) > 0
    THEN
        LET entityId == getEntityIdMap(acc.entities[index])
        IN  IF entityId = Undefined
            THEN [acc EXCEPT !.tasks[index].st = "threw"]
            ELSE [acc EXCEPT !.tasks[index] =
                                [st |-> "pending", where |-> entityId]]
    ELSE [acc EXCEPT !.tasks[index].st = "fulfilled"]

\* UpdateEntity with a fault: the driver's capability is not asked.  C6 must
\* tell it from the code.
UpdateEntityAlwaysReselect(acc, index) == UpdateByReselect(acc, index)

\* The synchronous part of update's callback for entity `index`, up to its
\* first await.

UpdateEntity(acc, index) ==
    IF isReturningSqlSupported
    THEN UpdateWithReturning(acc, index)
    ELSE UpdateByReselect(acc, index)

\* entities.map(async (entity, entityIndex) => ...): the callbacks run one
\* after the other, each up to its first await.
RECURSIVE UpdateMap(_, _)
UpdateMap(acc, index) ==
    IF index > Len(acc.entities)
    THEN acc
    ELSE UpdateMap(UpdateEntity(acc, index), index + 1)

\* Promise.all over the tasks: rejected with the first rejection, fulfilled
\* once every task is.
Threw(ts) == { i \in 1..Len(ts) : ts[i].st = "threw" }
Pending(ts) == { i \in 1..Len(ts) : ts[i].st = "pending" }
Min(S) == CHOOSE x \in S : \A y \in S : x <= y

\* FailCall with a fault: the rejection is swallowed (Promise.allSettled in
\* place of Promise.all).  C10 must tell it from the code.
FailCallSwallowed(error) == UNCHANGED <<pc, callError>>

\* A task rejects with `error`: Promise.all rejects with it, and so does the
\* method that awaits it, unless the method has already settled.

FailCall(error) ==
    IF pc = "awaitAll"
    THEN pc' = "threw" /\ callError' = error
    ELSE UNCHANGED <<pc, callError>>

\* update(updateResult, entities), up to the await of Promise.all.
UpdateCall ==
    /\ op = "update"
    /\ pc = "idle"
    /\ \E ents \in EntityLists :
         \E raw0 \in RawChoices(Len(ents)) :
           LET acc == UpdateMap([raw |-> raw0,
                                 entities |-> ents,
                                 generatedMaps |-> <<>>,
                                 tasks |-> [i \in 1..Len(ents) |-> NoTask]], 1)
           IN  /\ given' = ents
               /\ givenRaw' = raw0
               /\ entities' = acc.entities
               /\ raw' = acc.raw
               /\ generatedMaps' = acc.generatedMaps
               /\ tasks' = acc.tasks
               /\ IF Threw(acc.tasks) # {}
                  THEN /\ pc' = "threw"
                       /\ callError' = IdentifierMissing(Min(Threw(acc.tasks)))
                  ELSE /\ pc' = IF Pending(acc.tasks) = {}
                                THEN "returned" ELSE "awaitAll"
                       /\ callError' = callError
    /\ UNCHANGED <<envVars, op, insertVars>>

\* The columns update's supplemental read selects.
UpdateSelection == primaryColumns \cup ColumnSet(extraReturningColumns)

\* The getOne() of entity `index` settles and its callback runs to its end.
UpdateReadSettle(index) ==
    /\ op = "update"
    /\ index \in Pending(tasks)
    /\ \/ \* the Query Service rejects the read
          /\ tasks' = [tasks EXCEPT ![index].st = "rejected"]
          /\ FailCall(QueryError(index))
          /\ UNCHANGED <<entities, generatedMaps>>
       \/ \* the read returns its row, or null
          \E loadedReturningColumns \in
                getOne(tasks[index].where, UpdateSelection) :
            /\ tasks' = [tasks EXCEPT ![index].st = "fulfilled"]
            /\ IF loadedReturningColumns # Undefined
               THEN /\ entities' = [entities EXCEPT ![index] =
                                       merge(@, loadedReturningColumns)]
                    /\ generatedMaps' =
                          Append(generatedMaps, loadedReturningColumns)
               ELSE UNCHANGED <<entities, generatedMaps>>
            /\ IF pc = "awaitAll" /\ Pending(tasks) = {index}
               THEN pc' = "returned"
               ELSE pc' = pc
            /\ callError' = callError
    /\ UNCHANGED <<envVars, op, given, givenRaw, raw, insertVars>>

\* ------------------------------------------------------------------ insert

\* The normalisation of insertResult.raw that opens the entities.map
\* callback: Oracle's per-column arrays become one object, Spanner's outer
\* array is unwrapped.
NormalizeInsertRaw(r) ==
    IF IsArray(r) /\ Len(extraReturningColumns) > 0
    THEN IF driverType = "oracle"
         THEN OracleReduce(r)
         ELSE IF driverType = "spanner"
              THEN At(r, 1)
              ELSE r
    ELSE r

\* InsertEntity with a fault: the driver's values are laid over the locally
\* generated ones.  C18 must tell it from the code.
InsertEntityDriverWins(acc, index) ==
    LET raw1 == NormalizeInsertRaw(acc.raw)
        result == IF IsArray(raw1) THEN At(raw1, index) ELSE raw1
        extracted == createGeneratedMap(result)
        generatedMap == IF index \in DOMAIN locallyGenerated
                        THEN merge(locallyGenerated[index], extracted)
                        ELSE IF extracted = Undefined THEN EmptyObject
                             ELSE extracted
    IN  [raw |-> raw1,
         entities |-> [acc.entities EXCEPT ![index] = merge(@, generatedMap)],
         genMaps |-> Append(acc.genMaps, generatedMap)]

\* The body of insert's entities.map callback for entity `index`.  acc: the
\* raw result, the entities and the generated maps so far.
InsertEntity(acc, index) ==
    LET raw1 == NormalizeInsertRaw(acc.raw)
        result == IF IsArray(raw1) THEN At(raw1, index) ELSE raw1
        extracted == createGeneratedMap(result)
        generatedMap0 == IF extracted = Undefined THEN EmptyObject
                         ELSE extracted
        generatedMap == IF index \in DOMAIN locallyGenerated
                        THEN merge(generatedMap0, locallyGenerated[index])
                        ELSE generatedMap0
    IN  [raw |-> raw1,
         entities |-> [acc.entities EXCEPT ![index] = merge(@, generatedMap)],
         genMaps |-> Append(acc.genMaps, generatedMap)]

RECURSIVE InsertMap(_, _)
InsertMap(acc, index) ==
    IF index > Len(acc.entities)
    THEN acc
    ELSE InsertMap(InsertEntity(acc, index), index + 1)

\* insertionColumns: the insertion-returning columns, without the generated
\* ones when there is no RETURNING clause.
insertionColumns ==
    SelectSeq(insertionReturningColumns,
              LAMBDA column : IF ~isGenerated(column) THEN TRUE
                              ELSE isReturningSqlSupported = TRUE)

\* The columns insert's supplemental reads select.
InsertSelection == primaryColumns \cup ColumnSet(insertionColumns)

\* The partition of the entities: their positions, by whether the primary-key
\* map is computable.
KnownId(ents) == { i \in 1..Len(ents) : getEntityIdMap(ents[i]) # Undefined }
ConflictBased(ents) == (1..Len(ents)) \ KnownId(ents)

\* entityIds: the identifiers of the known-id entities, in input order.
RECURSIVE EntityIds(_, _)
EntityIds(ents, index) ==
    IF index > Len(ents)
    THEN <<>>
    ELSE (IF index \in KnownId(ents)
          THEN <<getEntityIdMap(ents[index])>> ELSE <<>>)
         \o EntityIds(ents, index + 1)

\* expressionMap.onUpdate?.conflict as a list: one name or a list of names,
\* nothing when no conflict target is configured.
ConfiguredConflicts ==
    IF conflict.defined
    THEN IF conflict.isArray THEN conflict.paths ELSE <<conflict.paths[1]>>
    ELSE <<>>

\* getConflictColumns with a fault: a configured name is kept whether or not
\* a column bears it.  C13 must tell it from the code.
getConflictColumnsKeepingStale == ConfiguredConflicts

\* getConflictColumns(): the columns the configured conflict paths name.
getConflictColumns ==
    IF conflict.defined
    THEN LET conflicts == IF conflict.isArray
                          THEN conflict.paths
                          ELSE <<conflict.paths[1]>>
         IN  SelectSeq(conflicts, LAMBDA conflictPath : conflictPath \in Columns)
    ELSE <<>>

\* WhereCondition with a fault: a null conflict value is kept in the filter.
\* C17 must tell it from the code.
WhereConditionKeepingNull(entity) ==
    [c \in ColumnSet(getConflictColumns) \cap DOMAIN entity |-> entity[c]]

\* whereCondition: the entity's conflict-column values that are neither
\* undefined nor null.
WhereCondition(entity) ==
    [c \in { x \in ColumnSet(getConflictColumns) : HasValue(entity, x) } |->
        entity[c]]

\* ConflictTasks with a fault: a conflict-based entity without a usable
\* conflict value is read with an empty filter.  C11 must tell it from the
\* code.
ConflictTasksAlwaysQuery(ents) ==
    [i \in 1..Len(ents) |->
        IF /\ i \in ConflictBased(ents)
           /\ Len(getConflictColumns) > 0
        THEN [st |-> "pending", where |-> WhereCondition(ents[i])]
        ELSE NoTask]

\* The tasks of the conflict-based entities: a getOne() in flight for each
\* with a usable conflict value, a finished callback for the others.
ConflictTasks(ents) ==
    [i \in 1..Len(ents) |->
        IF /\ i \in ConflictBased(ents)
           /\ Len(getConflictColumns) > 0
        THEN IF DOMAIN WhereCondition(ents[i]) # {}
             THEN [st |-> "pending", where |-> WhereCondition(ents[i])]
             ELSE [st |-> "fulfilled", where |-> Undefined]
        ELSE NoTask]

\* MapBack with a fault: the rows are handed out by position to every
\* entity, identified or not.  C5 must tell it from the code.
MapBackByPosition(ents, rr, resultWithIds) ==
    [i \in 1..Len(ents) |->
        IF i <= Len(resultWithIds) THEN resultWithIds[i] ELSE Undefined]

\* "map results back to correct positions": the rows of the batched read are
\* handed, in the order they came, to the entities that have an identifier.
MapBack(ents, rr, resultWithIds) ==
    [i \in 1..Len(ents) |->
        IF i \in KnownId(ents)
        THEN LET resultIndex == Cardinality({ j \in KnownId(ents) : j < i }) + 1
             IN  IF resultIndex <= Len(resultWithIds)
                 THEN resultWithIds[resultIndex]
                 ELSE Undefined
        ELSE rr[i]]

\* Identifiers with a fault: an undefined identifier is not pushed.  C1 must
\* tell it from the code.
IdentifiersOfIdentified(ents) ==
    SelectSeq([i \in 1..Len(ents) |-> getEntityIdMap(ents[i])],
              LAMBDA entityId : entityId # Undefined)

\* The identifiers the last loop pushes: getEntityIdMap of every entity,
\* undefined included.
Identifiers(ents) == [i \in 1..Len(ents) |-> getEntityIdMap(ents[i])]

\* MergeRecovered with a fault: the recovered row replaces the entity
\* instead of being merged into it.  C12 must tell it from the code.
MergeRecoveredReplacing(ents, rr) ==
    [i \in 1..Len(ents) |-> IF rr[i] = Undefined THEN ents[i] ELSE rr[i]]

\* manager.merge(target, entity, returningResult[entityIndex]) for every
\* entity: the recovered row is merged into the caller's object.
MergeRecovered(ents, rr) ==
    [i \in 1..Len(ents) |-> merge(ents[i], rr[i])]

\* The closing forEach loops of insert: merge the recovered rows, then append
\* one identifier and one generated map per entity.
Finish(ents, gms, rr) ==
    LET merged == MergeRecovered(ents, rr)
        maps == [i \in 1..Len(ents) |-> merge(gms[i], rr[i])]
    IN  /\ entities' = merged
        /\ genMaps' = maps
        /\ identifiers' = identifiers \o Identifiers(merged)
        /\ generatedMaps' = generatedMaps \o maps
        /\ pc' = "returned"

\* NeedsBatchedRead with a fault: the read is issued although there is no
\* column to read.  C7 must tell it from the code.
NeedsBatchedReadIgnoringColumns(ids) == Len(ids) > 0

\* Whether the batched read of the known-id entities is issued.

NeedsBatchedRead(ids) == Len(insertionColumns) > 0 /\ Len(ids) > 0

\* AfterConflicts with a fault: the identifiers and the generated maps are
\* appended before the batched read is awaited.  C19 must tell it from the
\* code.
AfterConflictsPushingEarly(ents, gms, rr, ids) ==
    /\ returningResult' = rr
    /\ IF NeedsBatchedRead(ids)
       THEN /\ many' = "pending"
            /\ pc' = "awaitMany"
            /\ entities' = ents
            /\ genMaps' = gms
            /\ identifiers' = identifiers \o Identifiers(ents)
            /\ generatedMaps' = generatedMaps \o gms
       ELSE /\ many' = many
            /\ Finish(ents, gms, rr)

\* insert from the end of the conflict reads on: the batched read of the
\* known-id entities if there is something to read, the closing loops if not.
AfterConflicts(ents, gms, rr, ids) ==
    /\ returningResult' = rr
    /\ IF NeedsBatchedRead(ids)
       THEN /\ many' = "pending"
            /\ pc' = "awaitMany"
            /\ entities' = ents
            /\ genMaps' = gms
            /\ UNCHANGED <<identifiers, generatedMaps>>
       ELSE /\ many' = many
            /\ Finish(ents, gms, rr)

\* insert(insertResult, entities), up to its first await that suspends (or
\* to its end when there is none).
InsertCall ==
    /\ op = "insert"
    /\ pc = "idle"
    /\ \E ents \in EntityLists :
         \E raw0 \in RawChoices(Len(ents)) :
           LET acc == InsertMap([raw |-> raw0, entities |-> ents,
                                 genMaps |-> <<>>], 1)
               n == Len(ents)
               none == [i \in 1..n |-> Undefined]
           IN  /\ given' = ents
               /\ givenRaw' = raw0
               /\ raw' = acc.raw
               /\ IF isReturningSqlSupported
                  THEN /\ tasks' = [i \in 1..n |-> NoTask]
                       /\ entityIds' = <<>>
                       /\ returningResult' = <<>>
                       /\ many' = many
                       /\ Finish(acc.entities, acc.genMaps, none)
                  ELSE /\ tasks' = ConflictTasks(acc.entities)
                       /\ entityIds' = EntityIds(acc.entities, 1)
                       /\ IF Pending(ConflictTasks(acc.entities)) # {}
                          THEN /\ pc' = "awaitAll"
                               /\ entities' = acc.entities
                               /\ genMaps' = acc.genMaps
                               /\ returningResult' = none
                               /\ UNCHANGED <<many, identifiers, generatedMaps>>
                          ELSE AfterConflicts(acc.entities, acc.genMaps, none,
                                              EntityIds(acc.entities, 1))
    /\ UNCHANGED <<envVars, op, callError>>

\* The getOne() of the conflict-based entity `index` settles.
ConflictReadSettle(index) ==
    /\ op = "insert"
    /\ index \in Pending(tasks)
    /\ \/ \* the Query Service rejects the read
          /\ tasks' = [tasks EXCEPT ![index].st = "rejected"]
          /\ FailCall(QueryError(index))
          /\ UNCHANGED <<entities, generatedMaps, insertVars>>
       \/ \* the read returns its row, or null
          \E conflictResult \in getOne(tasks[index].where, InsertSelection) :
            LET rr == IF conflictResult # Undefined
                      THEN [returningResult EXCEPT ![index] = conflictResult]
                      ELSE returningResult
            IN  /\ tasks' = [tasks EXCEPT ![index].st = "fulfilled"]
                /\ callError' = callError
                /\ IF pc = "awaitAll" /\ Pending(tasks) = {index}
                   THEN AfterConflicts(entities, genMaps, rr, entityIds)
                   ELSE /\ returningResult' = rr
                        /\ UNCHANGED <<pc, entities, generatedMaps, genMaps,
                                       many, identifiers>>
    /\ UNCHANGED <<envVars, op, given, givenRaw, raw, entityIds>>

\* ManyReadSettle with a fault: the rejection of the batched read is caught
\* and insert goes on waiting.  C20 must tell it from the code.
ManyReadSettleRejectionLost ==
    /\ op = "insert"
    /\ many = "pending"
    /\ \/ /\ many' = "rejected"
          /\ UNCHANGED <<pc, callError, entities, generatedMaps, genMaps,
                         returningResult, identifiers>>
       \/ \E resultWithIds \in getMany(entityIds, InsertSelection) :
            /\ many' = "fulfilled"
            /\ callError' = callError
            /\ returningResult' =
                  MapBack(entities, returningResult, resultWithIds)
            /\ Finish(entities, genMaps,
                      MapBack(entities, returningResult, resultWithIds))
    /\ UNCHANGED <<envVars, op, given, givenRaw, raw, tasks, entityIds>>

\* The batched getMany() of the known-id entities settles.
ManyReadSettle ==
    /\ op = "insert"
    /\ many = "pending"
    /\ \/ \* the Query Service rejects the read
          /\ many' = "rejected"
          /\ pc' = "threw"
          /\ callError' = QueryError(0)
          /\ UNCHANGED <<entities, generatedMaps, genMaps, returningResult,
                         identifiers>>
       \/ \* the read returns its rows
          \E resultWithIds \in getMany(entityIds, InsertSelection) :
            /\ many' = "fulfilled"
            /\ callError' = callError
            /\ returningResult' =
                  MapBack(entities, returningResult, resultWithIds)
            /\ Finish(entities, genMaps,
                      MapBack(entities, returningResult, resultWithIds))
    /\ UNCHANGED <<envVars, op, given, givenRaw, raw, tasks, entityIds>>

\* -------------------------------------------------------- column selectors

MaxColumns == 2

\* getUpdationReturningColumns(): the columns with a generation expression,
\* the update-timestamp columns and the version columns, in metadata order.
getUpdationReturningColumns ==
    SelectSeq(metadataColumns,
              LAMBDA column : \/ column.asExpression
                              \/ column.isUpdateDate
                              \/ column.isVersion)

\* getSoftDeletionReturningColumns with a fault: the version columns are
\* forgotten.  C14 must tell it from the code.
getSoftDeletionReturningColumnsWithoutVersion ==
    SelectSeq(metadataColumns,
              LAMBDA column : \/ column.asExpression
                              \/ column.isUpdateDate
                              \/ column.isDeleteDate)

\* getSoftDeletionReturningColumns(): the same, and the delete-timestamp
\* columns.
getSoftDeletionReturningColumns ==
    SelectSeq(metadataColumns,
              LAMBDA column : \/ column.asExpression
                              \/ column.isUpdateDate
                              \/ column.isVersion
                              \/ column.isDeleteDate)

\* The names of the columns of the metadata the selectors are tried on.
ColumnNames == <<"a", "b", "c", "d">>

\* The variables of a reconciliation call, which the selectors leave alone.
callVars == <<driverType, isReturningSqlSupported, extraReturningColumns,
              insertionReturningColumns, conflict, locallyGenerated, op, pc,
              callError, given, givenRaw, entities, raw, generatedMaps, tasks,
              insertVars>>

\* Any metadata of up to MaxColumns columns, each with any combination of
\* the four flags; no reconciliation call is under way.
InitSelectors ==
    /\ \E n \in 0..MaxColumns :
         \E flags \in [1..n -> [asExpression : BOOLEAN, isUpdateDate : BOOLEAN,
                                 isVersion : BOOLEAN, isDeleteDate : BOOLEAN]] :
            metadataColumns =
               [k \in 1..n |->
                   Column(ColumnNames[k], flags[k].asExpression,
                          flags[k].isUpdateDate, flags[k].isVersion,
                          flags[k].isDeleteDate)]
    /\ selectorsCalled = {}
    /\ updationReturning = <<>>
    /\ softDeletionReturning = <<>>
    /\ driverType = "other"
    /\ isReturningSqlSupported = TRUE
    /\ extraReturningColumns = <<>>
    /\ insertionReturningColumns = <<>>
    /\ conflict = [defined |-> FALSE, isArray |-> FALSE, paths |-> <<>>]
    /\ locallyGenerated = EmptyObject
    /\ op = "update"
    /\ pc = "idle"
    /\ callError = NoError
    /\ given = <<>>
    /\ givenRaw = RawUndef
    /\ entities = <<>>
    /\ raw = RawUndef
    /\ generatedMaps = <<>>
    /\ identifiers = <<>>
    /\ tasks = <<>>
    /\ genMaps = <<>>
    /\ returningResult = <<>>
    /\ entityIds = <<>>
    /\ many = "none"

\* A query builder asks for the columns to return from an update.
UpdationReturningColumnsCall ==
    /\ "updation" \notin selectorsCalled
    /\ selectorsCalled' = selectorsCalled \cup {"updation"}
    /\ updationReturning' = getUpdationReturningColumns
    /\ UNCHANGED <<metadataColumns, softDeletionReturning, callVars>>

\* A query builder asks for the columns to return from a soft delete or a
\* restore.
SoftDeletionReturningColumnsCall ==
    /\ "softDeletion" \notin selectorsCalled
    /\ selectorsCalled' = selectorsCalled \cup {"softDeletion"}
    /\ softDeletionReturning' = getSoftDeletionReturningColumns
    /\ UNCHANGED <<metadataColumns, updationReturning, callVars>>

NextSelectors ==
    \/ UpdationReturningColumnsCall
    \/ SoftDeletionReturningColumnsCall

SpecSelectors == InitSelectors /\ [][NextSelectors]_vars

\* -------------------------------------------------------------------- next

Next ==
    \/ UpdateCall
    \/ \E index \in 1..MaxEntities : UpdateReadSettle(index)
    \/ InsertCall
    \/ \E index \in 1..MaxEntities : ConflictReadSettle(index)
    \/ ManyReadSettle

Spec == Init /\ [][Next]_vars

\* The Query Service settles every read it was given: each read that is
\* pending is eventually resolved or rejected.
FairSpec ==
    /\ Spec
    /\ \A index \in 1..MaxEntities : WF_vars(UpdateReadSettle(index))
    /\ \A index \in 1..MaxEntities : WF_vars(ConflictReadSettle(index))
    /\ WF_vars(ManyReadSettle)

\* ---------------------------------------------------------------- the claims

\* The supplemental reads the call has issued so far.
PerEntityReads == { i \in 1..Len(tasks) : tasks[i].where # Undefined }
QueriesIssued ==
    Cardinality(PerEntityReads) + (IF many # "none" THEN 1 ELSE 0)

\* C1: a successful insert appends exactly one generated map and exactly one
\* identifier per input entity, whatever the backend's capability and the mix
\* of known-id and conflict-based entities; entry i belongs to entity i: the
\* identifier is entity i's primary-key map after all merges, and the
\* generated map is the one insert built for position i, whose every value
\* entity i now carries.
C1_InsertAppendsOnePerEntity ==
    (op = "insert" /\ pc = "returned") =>
        /\ Len(generatedMaps) = Len(given)
        /\ Len(identifiers) = Len(given)
        /\ \A i \in 1..Len(given) :
              /\ identifiers[i] = getEntityIdMap(entities[i])
              /\ generatedMaps[i] = genMaps[i]
              /\ \A c \in DOMAIN generatedMaps[i] :
                    /\ c \in DOMAIN entities[i]
                    /\ entities[i][c] = generatedMaps[i][c]

\* C1's case: a successful insert without RETURNING over two entities, one
\* recovered through the batched read and one through its conflict columns.
C1_Witness ==
    /\ op = "insert"
    /\ pc = "returned"
    /\ ~isReturningSqlSupported
    /\ Len(given) = 2
    /\ many = "fulfilled"
    /\ PerEntityReads # {}
    /\ Len(identifiers) = 2

\* Whether entity i's extraction (with RETURNING) or supplemental read
\* (without) has yielded a result.
UpdateYields(i) ==
    IF isReturningSqlSupported
    THEN createGeneratedMap(IF IsArray(raw) THEN At(raw, i) ELSE raw)
            # Undefined
    ELSE /\ tasks[i].st = "fulfilled"
         /\ tasks[i].where # Undefined
         /\ Matching(tasks[i].where) # {}

\* C2 as stated: a successful update leaves exactly one new ledger entry per
\* input entity, whatever the extraction or the supplemental read returns.
C2_UpdateAppendsOnePerEntity ==
    (op = "update" /\ pc = "returned") => Len(generatedMaps) = Len(given)

\* C2 as amended: a successful update leaves one new ledger entry for each
\* input entity whose extraction or supplemental read yielded a result and
\* none for the others, so never more than one per entity.
C2_UpdateAppendsOnePerYield ==
    (op = "update" /\ pc = "returned") =>
        /\ Len(generatedMaps) =
              Cardinality({ i \in 1..Len(given) : UpdateYields(i) })
        /\ Len(generatedMaps) <= Len(given)

\* C2's case: a successful update of two entities of which only one yielded
\* a row.
C2_Witness ==
    /\ op = "update"
    /\ pc = "returned"
    /\ Len(given) = 2
    /\ Len(generatedMaps) = 1
    /\ \E i \in 1..2 : tasks[i].where # Undefined /\ ~UpdateYields(i)

\* The rows update's supplemental reads have loaded, in input-entity order.
RECURSIVE LoadedInInputOrder(_)
LoadedInInputOrder(index) ==
    IF index > Len(tasks)
    THEN <<>>
    ELSE (IF UpdateYields(index)
          THEN <<Select(CHOOSE r \in Matching(tasks[index].where) : TRUE,
                        UpdateSelection)>>
          ELSE <<>>)
         \o LoadedInInputOrder(index + 1)

\* C3: in update without RETURNING the ledger entries are in input-entity
\* order (entity i's entry before entity j's whenever i < j), in whatever
\* order the concurrent reads complete.
C3_UpdateLedgerInInputOrder ==
    (op = "update" /\ ~isReturningSqlSupported) =>
        generatedMaps = LoadedInInputOrder(1)

\* C4: in insert without RETURNING, when the batched read returns, every
\* known-id entity is handed the row whose primary key is its own identifier
\* (and no row when no such row came back), never another identifier's row.
C4_BatchedRowsMatchIdentifiers ==
    [][(op = "insert" /\ many = "pending" /\ many' = "fulfilled") =>
          \A i \in KnownId(entities) :
             returningResult'[i] \in
                getOne(getEntityIdMap(entities[i]), InsertSelection)]_vars

\* C5: upsert conflict recovery.  After a successful insert without
\* RETURNING, an entity that had no primary key, has a value for every
\* configured conflict column and matches exactly one stored row carries that
\* row's primary key, in itself and in its Identifier Map entry, and keeps
\* the caller's values of the fields that were not selected.
C5_ConflictRecovery ==
    (op = "insert" /\ pc = "returned" /\ ~isReturningSqlSupported) =>
        \A i \in PerEntityReads :
           (/\ DOMAIN tasks[i].where = ColumnSet(getConflictColumns)
            /\ Cardinality(Matching(tasks[i].where)) = 1)
           => LET row == CHOOSE r \in Matching(tasks[i].where) : TRUE
              IN  /\ getEntityIdMap(entities[i]) = Select(row, primaryColumns)
                  /\ identifiers[i] = Select(row, primaryColumns)
                  /\ \A c \in (DOMAIN given[i]) \ InsertSelection :
                        entities[i][c] = given[i][c]

\* C5's case: the entity came without an id, its two conflict columns match
\* one stored row, and a known-id entity was recovered in the same call.
C5_Witness ==
    /\ op = "insert"
    /\ pc = "returned"
    /\ ~isReturningSqlSupported
    /\ many = "fulfilled"
    /\ \E i \in PerEntityReads :
          /\ DOMAIN tasks[i].where = {"key1", "key2"}
          /\ Cardinality(Matching(tasks[i].where)) = 1
          /\ "id" \notin DOMAIN given[i]
          /\ identifiers[i] = [id |-> 1]
          /\ entities[i]["value"] = 5

\* C6: with inline RETURNING neither update nor insert issues a supplemental
\* read, whatever the entities and the conflict configuration.
C6_NoReadWithReturning ==
    isReturningSqlSupported => QueriesIssued = 0

\* C6's case: a finished insert with RETURNING over two entities, one of
\* them without a primary key, with conflict columns configured.
C6_Witness ==
    /\ isReturningSqlSupported
    /\ op = "insert"
    /\ pc = "returned"
    /\ Len(given) = 2
    /\ Len(getConflictColumns) > 0
    /\ ConflictBased(entities) # {}
    /\ insertionColumns # <<>>

\* C7: in insert without RETURNING the known-id entities cost one batched
\* read when there is a known-id entity and a returning column, and none
\* otherwise; no known-id entity gets a read of its own.
C7_OneBatchedRead ==
    (op = "insert" /\ ~isReturningSqlSupported /\ pc # "idle") =>
        /\ (pc \in {"awaitMany", "returned"} \/ many # "none") =>
              ((many # "none") <=>
                  (Len(entityIds) > 0 /\ Len(insertionColumns) > 0))
        /\ pc = "awaitAll" => many = "none"
        /\ Cardinality(PerEntityReads) + Len(entityIds) <= Len(given)

\* C7's case: two known-id entities recovered by the one batched read.
C7_Witness ==
    /\ op = "insert"
    /\ ~isReturningSqlSupported
    /\ pc = "returned"
    /\ Len(entityIds) = 2
    /\ many = "fulfilled"
    /\ QueriesIssued = 1

\* C8: in update without RETURNING and with a returning-eligible column, an
\* entity without a computable primary key makes the call fail with the
\* identifier-missing error, and no read is issued for that entity.
C8_IdentifierMissing ==
    (/\ op = "update"
     /\ pc # "idle"
     /\ ~isReturningSqlSupported
     /\ Len(extraReturningColumns) > 0) =>
        \A i \in 1..Len(given) :
           getEntityIdMap(given[i]) = Undefined =>
              /\ pc = "threw"
              /\ callError.kind = "TypeORMError"
              /\ callError =
                    IdentifierMissing(
                       Min({ j \in 1..Len(given) :
                               getEntityIdMap(given[j]) = Undefined }))
              /\ tasks[i].st = "threw"
              /\ i \notin PerEntityReads

\* C8's case: one entity has no primary key while the read of the other was
\* issued and has returned.
C8_Witness ==
    /\ op = "update"
    /\ pc = "threw"
    /\ \E i, j \in 1..Len(given) :
          /\ getEntityIdMap(given[i]) = Undefined
          /\ tasks[i].st = "threw"
          /\ tasks[j].st = "fulfilled"
          /\ j \in PerEntityReads

\* C9: update without RETURNING and without returning-eligible columns
\* issues no read, appends nothing, changes no entity and succeeds, also for
\* entities without a primary key.
C9_NothingToReturn ==
    (/\ op = "update"
     /\ pc # "idle"
     /\ ~isReturningSqlSupported
     /\ Len(extraReturningColumns) = 0) =>
        /\ pc = "returned"
        /\ QueriesIssued = 0
        /\ generatedMaps = <<>>
        /\ entities = given

\* C9's case: two entities, one of them without a primary key.
C9_Witness ==
    /\ op = "update"
    /\ pc = "returned"
    /\ ~isReturningSqlSupported
    /\ Len(extraReturningColumns) = 0
    /\ Len(given) = 2
    /\ \E i \in 1..2 : getEntityIdMap(given[i]) = Undefined

\* C10 as stated: whenever a supplemental read has been rejected, the call
\* has failed with that read's error.
C10_FailsWithThatError ==
    /\ \A i \in 1..Len(tasks) :
          tasks[i].st = "rejected" =>
             (pc = "threw" /\ callError = QueryError(i))
    /\ many = "rejected" => (pc = "threw" /\ callError = QueryError(0))

\* C10 as amended: when a supplemental read is rejected the call fails, with
\* that read's error if nothing had failed before and with the error of the
\* first failure otherwise; once failed, the call stays failed with the same
\* error and never reports success.
C10_FailsWithFirstFailure ==
    [][/\ \A i \in 1..Len(tasks) :
             (tasks[i].st = "pending" /\ tasks'[i].st = "rejected") =>
                /\ pc' = "threw"
                /\ callError' = IF pc = "threw" THEN callError
                                ELSE QueryError(i)
       /\ (many = "pending" /\ many' = "rejected") =>
             (pc' = "threw" /\ callError' = QueryError(0))
       /\ pc = "threw" => (pc' = "threw" /\ callError' = callError)
       /\ pc' = "threw" => callError' # NoError]_vars

\* C10's case: one read was rejected after another had succeeded, and the
\* call failed with the rejected read's error.
C10_Witness ==
    /\ pc = "threw"
    /\ \E i, j \in 1..Len(tasks) :
          /\ tasks[i].st = "rejected"
          /\ callError = QueryError(i)
          /\ tasks[j].st = "fulfilled"
          /\ j \in PerEntityReads

\* The entities, the raw result and the generated maps as insert's
\* entities.map leaves them: the state "after the initial generated-map
\* merge", recomputed from what the caller passed.
InitialMerge ==
    InsertMap([raw |-> givenRaw, entities |-> given, genMaps |-> <<>>], 1)

\* The conflict-based entities that insert leaves unresolved: no conflict
\* column is configured, or none has a usable value in the entity, or the
\* entity's own read matched no row.
NoConflictSet == Len(getConflictColumns) = 0
NoUsableValue(i) ==
    \A c \in ColumnSet(getConflictColumns) :
       ~HasValue(InitialMerge.entities[i], c)
MatchedNoRow(i) ==
    /\ tasks[i].st = "fulfilled"
    /\ tasks[i].where # Undefined
    /\ returningResult[i] = Undefined

\* C11: in insert without RETURNING, a conflict-based entity with no conflict
\* set configured, or with no usable conflict value, or whose read matched no
\* row, causes no error.  No read is issued for it in the first two cases; the
\* call fails only if some read was rejected; and when the call returns the
\* entity and its ledger entry are as the initial merge left them, and its
\* identifier slot is there, holding undefined.
C11_UnresolvedIsNoError ==
    (op = "insert" /\ ~isReturningSqlSupported /\ pc # "idle") =>
        /\ pc = "threw" =>
              /\ callError.kind = "QueryError"
              /\ IF callError.of = 0
                 THEN many = "rejected"
                 ELSE tasks[callError.of].st = "rejected"
        /\ \A i \in ConflictBased(InitialMerge.entities) :
              /\ (NoConflictSet \/ NoUsableValue(i)) =>
                    tasks[i].where = Undefined
              /\ ( /\ pc = "returned"
                   /\ NoConflictSet \/ NoUsableValue(i) \/ MatchedNoRow(i) ) =>
                    /\ returningResult[i] = Undefined
                    /\ entities[i] = InitialMerge.entities[i]
                    /\ Len(generatedMaps) = Len(given)
                    /\ generatedMaps[i] = InitialMerge.genMaps[i]
                    /\ Len(identifiers) = Len(given)
                    /\ identifiers[i] = Undefined

\* A returned insert with one entity that had no usable conflict value and
\* another whose read matched no row.
C11_Witness ==
    /\ op = "insert" /\ ~isReturningSqlSupported /\ pc = "returned"
    /\ ~NoConflictSet
    /\ \E i, j \in ConflictBased(InitialMerge.entities) :
          /\ NoUsableValue(i)
          /\ MatchedNoRow(j)
          /\ identifiers[i] = Undefined
          /\ identifiers[j] = Undefined

\* The columns the call has addressed in entity i so far: those of its
\* generated map (the locally generated override included) and of its
\* recovered row in insert; those of its generated map, or of the row its own
\* read loaded, in update.
Addressed(i) ==
    IF op = "insert"
    THEN (DOMAIN InitialMerge.genMaps[i])
         \cup (IF i \in DOMAIN returningResult /\ returningResult[i] # Undefined
               THEN DOMAIN returningResult[i] ELSE {})
    ELSE IF isReturningSqlSupported
         THEN LET returningColumns ==
                    createGeneratedMap(IF IsArray(raw) THEN At(raw, i) ELSE raw)
              IN  IF returningColumns = Undefined THEN {}
                  ELSE DOMAIN returningColumns
         ELSE IF tasks[i].st = "fulfilled" /\ tasks[i].where # Undefined
              THEN UpdateSelection ELSE {}

\* C12: insert and update never destroy caller-set data.  At every moment of
\* a call the entity at each input position is the caller's object: there are
\* as many entities as were passed, none of the caller's fields is gone, and
\* a field holds another value than the caller's only if the entity's
\* generated map, locally generated override or recovered row addresses it.
C12_CallerDataKept ==
    pc # "idle" =>
        /\ Len(entities) = Len(given)
        /\ \A i \in 1..Len(given) :
              \A c \in DOMAIN given[i] :
                 /\ c \in DOMAIN entities[i]
                 /\ entities[i][c] # given[i][c] => c \in Addressed(i)

\* A returned insert in which a recovered row changed an entity that still
\* carries a caller-set field the row does not address.
C12_Witness ==
    /\ op = "insert" /\ pc = "returned" /\ ~isReturningSqlSupported
    /\ \E i \in 1..Len(given) :
          /\ returningResult[i] # Undefined
          /\ entities[i] # given[i]
          /\ \E c \in (DOMAIN given[i]) \ Addressed(i) :
                entities[i][c] = given[i][c]

\* C13: getConflictColumns returns exactly the columns whose name is a
\* configured conflict name, in configured order: the configured names that
\* name a column, one for one and in the same order, a name that matches no
\* column being dropped; and nothing when no conflict target is configured.
C13_ConflictColumnsResolved ==
    LET kept == { k \in 1..Len(ConfiguredConflicts) :
                    ConfiguredConflicts[k] \in Columns }
    IN  /\ Len(getConflictColumns) = Cardinality(kept)
        /\ \A n \in 1..Len(getConflictColumns) :
              \E k \in kept :
                 /\ Cardinality({ j \in kept : j < k }) = n - 1
                 /\ getConflictColumns[n] = ConfiguredConflicts[k]
        /\ ~conflict.defined => getConflictColumns = <<>>

\* An insert that resolved a conflict target holding a stale name and read an
\* entity back by the remaining column.
C13_Witness ==
    /\ op = "insert" /\ pc = "returned"
    /\ \E k \in 1..Len(ConfiguredConflicts) : ConfiguredConflicts[k] \notin Columns
    /\ getConflictColumns = <<"key1">>
    /\ \E i \in 1..Len(tasks) :
          /\ tasks[i].where # Undefined
          /\ DOMAIN tasks[i].where = {"key1"}

\* The columns of the metadata that carry one of the flags.
UpdateReturningKinds ==
    { metadataColumns[k] : k \in { j \in 1..Len(metadataColumns) :
          \/ metadataColumns[j].asExpression
          \/ metadataColumns[j].isUpdateDate
          \/ metadataColumns[j].isVersion } }
DeleteTimestamps ==
    { metadataColumns[k] : k \in { j \in 1..Len(metadataColumns) :
          metadataColumns[j].isDeleteDate } }

\* C14: for every metadata, the soft-delete-returning columns are the
\* update-returning columns (those with a generation expression, the
\* update-timestamp and the version columns) and the delete-timestamp
\* columns, and nothing else.
C14_SoftDeletionExtendsUpdation ==
    /\ "updation" \in selectorsCalled =>
          ColumnSet(updationReturning) = UpdateReturningKinds
    /\ "softDeletion" \in selectorsCalled =>
          ColumnSet(softDeletionReturning) =
             UpdateReturningKinds \cup DeleteTimestamps
    /\ selectorsCalled = {"updation", "softDeletion"} =>
          ColumnSet(softDeletionReturning) =
             ColumnSet(updationReturning) \cup DeleteTimestamps

\* Both selectors have run on a metadata with a version column that is no
\* delete timestamp and a delete timestamp that is nothing else.
C14_Witness ==
    /\ selectorsCalled = {"updation", "softDeletion"}
    /\ \E c \in ColumnSet(updationReturning) :
          c.isVersion /\ ~c.isDeleteDate /\ ~c.asExpression /\ ~c.isUpdateDate
    /\ \E c \in ColumnSet(softDeletionReturning) :
          c.isDeleteDate /\ c \notin ColumnSet(updationReturning)

\* C15: when update or insert has settled, by returning or by failing, none
\* of the reads it issued is still pending (and so nothing of the call is
\* left to modify an entity or the ledger afterwards).
C15_SettledMeansDone ==
    pc \in {"returned", "threw"} =>
        /\ Pending(tasks) = {}
        /\ many # "pending"

\* C16: in insert, the raw result is normalised once per call.  On Spanner,
\* with a one-element outer array around the rows, two entities or more and
\* an extra returning column, the outer array is unwrapped exactly once, and
\* the generated map of entity i comes from row i of the unwrapped result.
C16_UnwrappedOnce ==
    ( /\ op = "insert" /\ pc = "returned"
      /\ driverType = "spanner"
      /\ IsArray(givenRaw) /\ Len(givenRaw.items) = 1
      /\ Len(extraReturningColumns) > 0
      /\ Len(given) >= 2 ) =>
        /\ raw = At(givenRaw, 1)
        /\ \A i \in 1..Len(given) :
              i \notin DOMAIN locallyGenerated =>
                 generatedMaps[i] = createGeneratedMap(At(At(givenRaw, 1), i))

\* The conflict-based entities that have a usable conflict value.
Recoverable ==
    { i \in ConflictBased(InitialMerge.entities) : ~NoUsableValue(i) }

\* C17: in insert without RETURNING and with conflict columns, exactly the
\* conflict-based entities with a usable conflict value have a read of their
\* own, one each, filtered by exactly their non-null, non-undefined conflict
\* values; what a read returns is recorded at the position of its entity and
\* nowhere else, whatever the order of completion and whether or not the
\* batched read runs; and a returned call has merged into each entity the row
\* recorded at its own position, and nothing else.
C17_OneReadPerRecoverable ==
    ( /\ op = "insert" /\ ~isReturningSqlSupported /\ pc # "idle"
      /\ Len(getConflictColumns) > 0 ) =>
        /\ PerEntityReads = Recoverable
        /\ \A i \in Recoverable :
              LET entity == InitialMerge.entities[i]
                  where == tasks[i].where
              IN  /\ DOMAIN where \subseteq ColumnSet(getConflictColumns)
                  /\ \A c \in ColumnSet(getConflictColumns) :
                        IF c \in DOMAIN entity /\ entity[c] # Null
                        THEN c \in DOMAIN where /\ where[c] = entity[c]
                        ELSE c \notin DOMAIN where
                  /\ tasks[i].st = "fulfilled" =>
                        returningResult[i] \in getOne(where, InsertSelection)
                  /\ tasks[i].st # "fulfilled" =>
                        returningResult[i] = Undefined
        /\ \A j \in ConflictBased(InitialMerge.entities) \ Recoverable :
              returningResult[j] = Undefined
        /\ pc = "returned" =>
              \A j \in 1..Len(given) :
                 entities[j] =
                    merge(InitialMerge.entities[j], returningResult[j])

\* A returned insert in which two conflict-based entities were read back,
\* each with its own filter, and got different rows.
C17_Witness ==
    /\ op = "insert" /\ ~isReturningSqlSupported /\ pc = "returned"
    /\ \E i, j \in Recoverable :
          /\ i # j
          /\ tasks[i].where # tasks[j].where
          /\ returningResult[i] # Undefined
          /\ returningResult[j] # Undefined
          /\ returningResult[i] # returningResult[j]
          /\ \E c \in ColumnSet(getConflictColumns) :
                HasValue(given[i], c) /\ ~HasValue(given[j], c)

\* insertResult.raw as the callback of entity `index` finds it once it has
\* normalised it: the raw result the caller passed, normalised by this
\* callback and by each one before it.
RECURSIVE RawSeenBy(_)
RawSeenBy(index) ==
    NormalizeInsertRaw(IF index = 1 THEN givenRaw ELSE RawSeenBy(index - 1))

\* What the driver extracts for entity `index`: createGeneratedMap(...) || {}.
DriverExtracted(index) ==
    LET seen == RawSeenBy(index)
        extracted ==
            createGeneratedMap(IF IsArray(seen) THEN At(seen, index) ELSE seen)
    IN  IF extracted = Undefined THEN EmptyObject ELSE extracted

\* Entity `index` and its generated map are still as the initial merge left
\* them: no recovered row has been merged into them.
NothingRecoveredFor(index) ==
    \/ pc \in {"awaitAll", "awaitMany", "threw"}
    \/ isReturningSqlSupported
    \/ returningResult[index] = Undefined

\* C18: in insert, after the initial merge, every column of the locally
\* generated override of a position has the override's value, not the
\* driver's, both in the generated map of that position and in its entity; a
\* position without override has exactly the map the driver extracted, and
\* its entity has that map merged into it.
C18_LocallyGeneratedWins ==
    (op = "insert" /\ pc # "idle") =>
        \A i \in 1..Len(given) :
           NothingRecoveredFor(i) =>
              IF i \in DOMAIN locallyGenerated
              THEN \A c \in DOMAIN locallyGenerated[i] :
                      /\ genMaps[i][c] = locallyGenerated[i][c]
                      /\ entities[i][c] = locallyGenerated[i][c]
              ELSE /\ genMaps[i] = DriverExtracted(i)
                   /\ entities[i] = merge(given[i], DriverExtracted(i))

\* An insert of two entities: the first has a locally generated id that
\* differs from the one the driver extracted, the second has no override and
\* got the driver's map.
C18_Witness ==
    /\ op = "insert" /\ pc = "returned" /\ Len(given) = 2
    /\ 1 \in DOMAIN locallyGenerated
    /\ 2 \notin DOMAIN locallyGenerated
    /\ NothingRecoveredFor(1) /\ NothingRecoveredFor(2)
    /\ "id" \in DOMAIN DriverExtracted(1)
    /\ DriverExtracted(1)["id"] # locallyGenerated[1]["id"]
    /\ entities[1]["id"] = locallyGenerated[1]["id"]
    /\ DriverExtracted(2) # EmptyObject
    /\ genMaps[2] = DriverExtracted(2)

\* C19: an insert that fails because a read was rejected leaves
\* insertResult.identifiers and insertResult.generatedMaps as they were
\* before the call (empty here), then and ever after: no entry is appended
\* for any entity.
C19_FailedInsertAppendsNothing ==
    (op = "insert" /\ pc = "threw") =>
        /\ identifiers = <<>>
        /\ generatedMaps = <<>>

\* An insert whose conflict read recovered a row and whose batched read was
\* then rejected.
C19_Witness ==
    /\ op = "insert" /\ pc = "threw"
    /\ callError = QueryError(0)
    /\ many = "rejected"
    /\ \E i \in 1..Len(given) :
          tasks[i].st = "fulfilled" /\ returningResult[i] # Undefined
    /\ entities # given

\* The reads a call may issue: one per entity in update; one per
\* conflict-based entity and one batched read in insert.
ReadsBound ==
    IF op = "update"
    THEN many = "none" /\ QueriesIssued <= Len(given)
    ELSE /\ PerEntityReads \subseteq ConflictBased(InitialMerge.entities)
         /\ QueriesIssued <=
               Cardinality(ConflictBased(InitialMerge.entities)) + 1

\* A call that has not settled waits on a read of its own that is pending.
WaitsOnOwnReads ==
    /\ pc = "awaitAll" => Pending(tasks) # {}
    /\ pc = "awaitMany" => many = "pending"

\* C20: if every read issued eventually settles, update and insert
\* eventually settle, by returning or by failing; a call waits on nothing
\* but its own pending reads, and issues at most one read per entity in
\* update, at most one per conflict-based entity and one batched read in
\* insert.
C20_Terminates ==
    /\ [](pc # "idle" => ReadsBound /\ WaitsOnOwnReads)
    /\ (pc # "idle") ~> (pc \in {"returned", "threw"})

\* An insert that waited for a conflict read and then for the batched read,
\* and returned.
C20_Witness ==
    /\ op = "insert" /\ pc = "returned"
    /\ \E i \in 1..Len(tasks) :
          tasks[i].where # Undefined /\ tasks[i].st = "fulfilled"
    /\ many = "fulfilled"
    /\ QueriesIssued = 2

====
